---- MODULE Spec2Model ----
(***************************************************************************)
(* Penny: content ingestion (ContentService), the content repository and   *)
(* the similarity search, as a state machine.                              *)
(*                                                                         *)
(* The store is the two tables of schema.ts (contents, content_chunks).    *)
(* Every request is served by a worker; a worker's step is the completion  *)
(* of one awaited call together with the synchronous code that follows it  *)
(* up to the next await, so requests interleave exactly at the awaits.     *)
(* Every awaited call may throw: extraction, the embedding provider and    *)
(* every statement sent to the store.                                      *)
(*                                                                         *)
(* Text is abstracted by its chunking: what an extractor returns is named  *)
(* by the sequence of chunk contents chunkText/chunkDocument cut it into.  *)
(* Vectors are unit vectors of the plane at multiples of 30 degrees, and   *)
(* similarities are cosines in thousandths.                                *)
(***************************************************************************)
EXTENDS Integers, Sequences, FiniteSets, TLC

----------------------------------------------------------------------------
(* Bounds of the model *)

\* content ids the id generator hands out (nanoid never repeats one)
MaxItems == 1
\* items in the store a search runs on
MaxStored == 2
\* no retry is let into the pipeline once the attempt counter of its item
\* reached this (a retry that is refused is not held back)
MaxAttempts == 1
\* largest LIMIT a search is asked for
MaxLimit == 2

Workers == {"w1", "w2"}

----------------------------------------------------------------------------
(* Values *)

\* a nullable column: NULL, or the value
Null == <<>>
Some(v) == <<v>>

\* An error message is a sequence of text fragments: a wrapper prepends its
\* prefix, and a pattern matches when one of the fragments is the pattern's.
Msg(s) == <<s>>
Wrap(prefix, msg) == <<prefix>> \o msg

RECURSIVE MsgLength(_)
MsgLength(msg) == IF msg = <<>> THEN 0 ELSE Len(Head(msg)) + MsgLength(Tail(msg))

\* what the extractors, the blob store, the image analysis and the embedding
\* provider throw when they fail
ExtractErrors == {Msg("timeout")}
\* what the scrape tool throws is passed on as it is: its Error may carry an
\* empty message
ScrapeErrors == ExtractErrors \cup {Msg("")}
UploadErrors == {Msg("timeout")}
AnalyzeErrors == {Msg("timeout")}
ProviderErrors == {Msg("timeout")}
\* what the store throws: it is unreachable, or a key is taken
StoreDown == Msg("connection refused")
DuplicateKey == <<"Failed query: ", "insert", " duplicate key value">>
ForeignKey == <<"Failed query: ", "insert", " foreign key violation">>

\* the two URLs of the model: a video and a page
YouTubeUrl == <<"https://", "youtu.be/", "abc">>
PageUrl == <<"https://", "example.com/", "post">>
Urls == {YouTubeUrl, PageUrl}

\* extracted texts, each named by the chunk contents it is cut into
Docs == {<<"cat", "dog">>, <<"dog">>}
QueryTexts == {"cat", "dog"}

ContentTypes == {"image", "webpage", "youtube", "document"}
TypeFilters == ContentTypes \cup {"all"}
\* thresholds a search is asked with, in thousandths (0.3 is the default)
Thresholds == {300, 866}

VARIABLES
    contents,   \* table contents: id -> row
    chunks,     \* table content_chunks: a set of rows
    nextId,     \* the next id the id generator hands out
    pc,         \* per worker: the await it is suspended at
    run,        \* per worker: the locals of the call it serves
    result,     \* per worker: what its call returned or threw
    found,      \* what the latest search was asked and answered
    chunker,    \* the chunkText call in progress: its arguments and locals
    document,   \* the chunkDocument call in progress: its arguments and locals
    embedder    \* the batchGenerateEmbeddings call in progress

vars == <<contents, chunks, nextId, pc, run, result, found, chunker, document, embedder>>

----------------------------------------------------------------------------
(* utils/error.ts *)

\* every thrown value of the model is an Error, named by its message
MaxErrorLength == 500

\* the fragments of msg that fit into n characters (the cut falls on a
\* fragment boundary)
RECURSIVE Truncate(_, _)
Truncate(msg, n) ==
    IF msg = <<>> \/ Len(Head(msg)) > n THEN <<>>
    ELSE <<Head(msg)>> \o Truncate(Tail(msg), n - Len(Head(msg)))

getErrorMessage(error) ==
    IF MsgLength(error) > MaxErrorLength
    THEN Truncate(error, MaxErrorLength) \o <<"...">>
    ELSE error

\* the fragments SENSITIVE_PATTERNS match
SensitiveFragments == {"connection refused", "Failed query: "}

getSafeErrorMessage(error) ==
    LET message == getErrorMessage(error)
    IN  IF \E i \in 1..Len(message) : message[i] \in SensitiveFragments
        THEN Msg("An internal error occurred. Please try again later.")
        ELSE message

----------------------------------------------------------------------------
(* lib/extraction/web.ts, lib/ai/embeddings.ts *)

isYouTubeUrl(url) ==
    \E i \in 1..Len(url) : url[i] \in {"youtube.com/watch", "youtu.be/"}

\* chunkText / chunkDocument on an extracted text: one TextChunk for each
\* chunk content, indexed from 0
textChunks(doc) == [i \in 1..Len(doc) |-> [content |-> doc[i], chunkIndex |-> i - 1]]

\* the embedding provider: the direction of a text's vector, in units of 30
\* degrees
EmbeddingOf(text) == IF text = "cat" THEN 0 ELSE IF text = "dog" THEN 1 ELSE 3

\* generateEmbeddings: one vector for each text, in order
generateEmbeddings(texts) == [i \in 1..Len(texts) |-> EmbeddingOf(texts[i])]

\* 1000 * cos(k * 30 degrees), k = 0..6
Cosine == <<1000, 866, 500, 0, -500, -866, -1000>>

\* 1 - (a <=> b), the cosine similarity of two unit vectors, in thousandths
Similarity(a, b) ==
    LET d == (a - b) % 12
    IN  Cosine[(IF d > 6 THEN 12 - d ELSE d) + 1]

----------------------------------------------------------------------------
(* contentRepository *)

\* the row insert(contents).values(data) stores: the columns data leaves out
\* take their defaults
NewContent(type, url, status, errorMessage) ==
    [type |-> type, url |-> url, status |-> status, errorMessage |-> errorMessage,
     processingAttempts |-> 0, completedAt |-> Null]

\* create: the insert is rejected when the primary key is taken
createRejected(id) == id \in DOMAIN contents

create(id, data) == (id :> data) @@ contents

\* an update that leaves the status column out
updateKeepsStatus(id, status, errorMessage) ==
    IF id \in DOMAIN contents
    THEN [contents EXCEPT ![id] = [@ EXCEPT !.errorMessage = errorMessage]]
    ELSE contents

\* update(id, {status, errorMessage, ...}): sets the columns given, of the row
\* with this id if there is one
update(id, status, errorMessage) ==
    IF id \in DOMAIN contents
    THEN [contents EXCEPT ![id] = [@ EXCEPT !.status = status,
                                            !.errorMessage = errorMessage]]
    ELSE contents

\* errorMessage || null: an absent or empty message is stored as NULL
OrNull(errorMessage) ==
    IF errorMessage = Null \/ MsgLength(errorMessage[1]) = 0 THEN Null ELSE errorMessage

updateStatus(id, status, errorMessage) ==
    IF id \in DOMAIN contents
    THEN [contents EXCEPT ![id] =
            [@ EXCEPT !.status = status,
                      !.errorMessage = OrNull(errorMessage),
                      !.processingAttempts = @ + 1,
                      !.completedAt = IF status = "completed" THEN Some("now") ELSE Null]]
    ELSE contents

\* the rows createChunks inserts: chunk index of the array gives the key
chunksToInsert(contentId, chunkData) ==
    {[id |-> <<contentId, index - 1>>,
      contentId |-> contentId,
      chunkIndex |-> chunkData[index].chunkIndex,
      content |-> chunkData[index].content,
      embedding |-> chunkData[index].embedding] : index \in 1..Len(chunkData)}

\* an insert that is never rejected
createChunksNeverRejected(contentId, chunkData) == Null

\* the insert is one statement: it is rejected as a whole when a key is taken
\* or the parent row is missing
createChunksRejected(contentId, chunkData) ==
    IF \E r \in chunksToInsert(contentId, chunkData) : \E c \in chunks : c.id = r.id
    THEN Some(DuplicateKey)
    ELSE IF Len(chunkData) > 0 /\ contentId \notin DOMAIN contents
    THEN Some(ForeignKey)
    ELSE Null

createChunks(contentId, chunkData) ==
    IF Len(chunkData) = 0 THEN chunks
    ELSE chunks \cup chunksToInsert(contentId, chunkData)

deleteChunks(contentId) == {c \in chunks : c.contentId # contentId}

\* what the services hand to createChunks: each chunk with its vector
chunksWithEmbeddings(doc) ==
    LET tc == textChunks(doc)
        embeddings == generateEmbeddings([i \in 1..Len(tc) |-> tc[i].content])
    IN  [i \in 1..Len(tc) |->
            [chunkIndex |-> tc[i].chunkIndex, content |-> tc[i].content,
             embedding |-> IF i \in DOMAIN embeddings THEN Some(embeddings[i]) ELSE Null]]

(* searchByEmbedding *)

\* ranked_chunks with >= in place of >
rankedChunksAtLeast(queryEmbedding, threshold) ==
    {c \in chunks : /\ c.embedding # Null
                    /\ Similarity(c.embedding[1], queryEmbedding) >= threshold}

\* the rows of ranked_chunks: chunks with a vector, above the threshold
rankedChunks(queryEmbedding, threshold) ==
    {c \in chunks : /\ c.embedding # Null
                    /\ Similarity(c.embedding[1], queryEmbedding) > threshold}

\* for each content_id any one of its ranked rows, whatever its distance
anyRanked(queryEmbedding, threshold) ==
    LET rc == rankedChunks(queryEmbedding, threshold)
        ids == {c.contentId : c \in rc}
    IN  {f \in [ids -> rc] : \A i \in ids : f[i].contentId = i}

\* rn = 1: for each content_id one of its rows at the least distance (ROW_NUMBER
\* orders equal distances either way)
firstRanked(queryEmbedding, threshold) ==
    LET rc == rankedChunks(queryEmbedding, threshold)
        ids == {c.contentId : c \in rc}
        sim(c) == Similarity(c.embedding[1], queryEmbedding)
    IN  {f \in [ids -> rc] :
            \A i \in ids : /\ f[i].contentId = i
                           /\ \A c \in rc : c.contentId = i => sim(c) <= sim(f[i])}

\* the join without the condition on the status
joinedAnyStatus(f, queryEmbedding, type) ==
    {[id |-> i, type |-> contents[i].type, status |-> contents[i].status,
      similarity |-> Similarity(f[i].embedding[1], queryEmbedding),
      matchedChunk |-> f[i].content] :
        i \in {j \in DOMAIN f \cap DOMAIN contents :
                  type # "all" => contents[j].type = type}}

\* the join without the condition on the type
joinedAnyType(f, queryEmbedding, type) ==
    {[id |-> i, type |-> contents[i].type, status |-> contents[i].status,
      similarity |-> Similarity(f[i].embedding[1], queryEmbedding),
      matchedChunk |-> f[i].content] :
        i \in {j \in DOMAIN f \cap DOMAIN contents : contents[j].status = "completed"}}

\* JOIN contents, WHERE status = 'completed' and the type filter
joined(f, queryEmbedding, type) ==
    {[id |-> i, type |-> contents[i].type, status |-> contents[i].status,
      similarity |-> Similarity(f[i].embedding[1], queryEmbedding),
      matchedChunk |-> f[i].content] :
        i \in {j \in DOMAIN f \cap DOMAIN contents :
                  /\ contents[j].status = "completed"
                  /\ (type # "all" => contents[j].type = type)}}

\* the rows in any order
unordered(rows) ==
    {s \in [1..Cardinality(rows) -> rows] : \A i, j \in DOMAIN s : i # j => s[i] # s[j]}

\* ORDER BY similarity DESC (equal similarities in either order)
orderBySimilarityDesc(rows) ==
    {s \in [1..Cardinality(rows) -> rows] :
        /\ \A i, j \in DOMAIN s : i # j => s[i] # s[j]
        /\ \A i, j \in DOMAIN s : i < j => s[i].similarity >= s[j].similarity}

Min(a, b) == IF a < b THEN a ELSE b

\* every result the query can return
searchByEmbedding(queryEmbedding, limit, threshold, type) ==
    UNION {{SubSeq(s, 1, Min(limit, Len(s))) :
                s \in orderBySimilarityDesc(joined(f, queryEmbedding, type))} :
           f \in firstRanked(queryEmbedding, threshold)}

\* findRecent: the completed rows, the latest created first (ids are handed
\* out in the order of creation), at most limit of them
findRecent(limit) ==
    LET ids == {i \in DOMAIN contents : contents[i].status = "completed"}
        ordered == CHOOSE s \in [1..Cardinality(ids) -> ids] :
                      \A i, j \in DOMAIN s : i < j => s[i] > s[j]
    IN  [k \in 1..Min(limit, Cardinality(ids)) |->
            [id |-> ordered[k], type |-> contents[ordered[k]].type,
             status |-> contents[ordered[k]].status]]

----------------------------------------------------------------------------
(* Workers *)

IdleRun ==
    [op |-> "none", contentId |-> 0, url |-> Null, doc |-> <<>>, errorMsg |-> <<>>,
     overlapped |-> FALSE, attemptsAtStart |-> 0]

NoResult ==
    [op |-> "none", outcome |-> "none", success |-> FALSE, error |-> <<>>,
     recordWrite |-> "none", recordError |-> <<>>, chunksCreated |-> 0]

NoSearch == [outcome |-> "none", args |-> <<>>, rows |-> <<>>]

\* no chunkText, chunkDocument or batchGenerateEmbeddings call in progress
NoCall == [pc |-> "idle"]

Init ==
    /\ contents = [i \in {} |-> i]
    /\ chunks = {}
    /\ nextId = 1
    /\ pc = [p \in Workers |-> "idle"]
    /\ run = [p \in Workers |-> IdleRun]
    /\ result = [p \in Workers |-> NoResult]
    /\ found = NoSearch
    /\ chunker = NoCall
    /\ document = NoCall
    /\ embedder = NoCall

\* what a statement sent to the store can throw: the store is unreachable, or
\* the statement breaks a constraint
StoreErrors(rejected) == {StoreDown} \cup (IF rejected = Null THEN {} ELSE {rejected[1]})

Goto(p, label) == pc' = [pc EXCEPT ![p] = label]

\* the catch block is entered with the error caught
Catch(p, error, label) ==
    /\ run' = [run EXCEPT ![p].errorMsg = getErrorMessage(error)]
    /\ Goto(p, label)

Returned(p, op, success, error, recordWrite, recordError, n) ==
    /\ result' = [result EXCEPT ![p] =
            [NoResult EXCEPT !.op = op, !.outcome = "returned", !.success = success,
                             !.error = error, !.recordWrite = recordWrite,
                             !.recordError = recordError, !.chunksCreated = n]]
    /\ Goto(p, "done")

Thrown(p, op, error, recordWrite, recordError) ==
    /\ result' = [result EXCEPT ![p] =
            [NoResult EXCEPT !.op = op, !.outcome = "thrown", !.error = error,
                             !.recordWrite = recordWrite, !.recordError = recordError]]
    /\ Goto(p, "done")

----------------------------------------------------------------------------
(* ContentService.processUrl *)

urlType(url) == IF isYouTubeUrl(url) THEN "youtube" ELSE "webpage"

\* what extractContent of the service chosen for the url throws
extractErrors(url) == IF isYouTubeUrl(url) THEN ExtractErrors ELSE ScrapeErrors

\* the call, up to the end of Step 3: the content is extracted and its row is
\* inserted
UrlCreate(p, url) ==
    /\ pc[p] = "idle"
    /\ nextId <= MaxItems
    /\ nextId' = nextId + 1
    /\ LET id == nextId
           started == [IdleRun EXCEPT !.op = "processUrl", !.contentId = id,
                                      !.url = Some(url)]
       IN  \/ \E e \in extractErrors(url) :
                /\ run' = [run EXCEPT ![p] = [started EXCEPT !.errorMsg = getErrorMessage(e)]]
                /\ Goto(p, "url.recordFailure")
                /\ UNCHANGED contents
           \/ \E doc \in Docs :
                /\ ~createRejected(id)
                /\ contents' = create(id, NewContent(urlType(url), Some(url), "completed", Null))
                /\ run' = [run EXCEPT ![p] = [started EXCEPT !.doc = doc]]
                /\ Goto(p, "url.embed")
           \/ \E e \in StoreErrors(IF createRejected(id) THEN Some(DuplicateKey) ELSE Null) :
                /\ run' = [run EXCEPT ![p] = [started EXCEPT !.errorMsg = getErrorMessage(e)]]
                /\ Goto(p, "url.recordFailure")
                /\ UNCHANGED contents
    /\ UNCHANGED <<chunks, result, found, chunker, document, embedder>>

\* Steps 4 and 5: the chunks are cut, the provider returns their vectors, the
\* chunks are inserted and the call returns
UrlCreateChunks(p) ==
    /\ pc[p] = "url.embed"
    /\ LET id == run[p].contentId
           data == chunksWithEmbeddings(run[p].doc)
           rejected == createChunksRejected(id, data)
       IN  \/ /\ \E e \in ProviderErrors :
                    Catch(p, Wrap("Failed to generate embeddings: ", getErrorMessage(e)),
                          "url.recordFailure")
              /\ UNCHANGED <<chunks, result>>
           \/ /\ rejected = Null
              /\ chunks' = createChunks(id, data)
              /\ Returned(p, "processUrl", TRUE, <<>>, "none", <<>>, Len(data))
              /\ UNCHANGED run
           \/ /\ \E e \in StoreErrors(rejected) : Catch(p, e, "url.recordFailure")
              /\ UNCHANGED <<chunks, result>>
    /\ UNCHANGED <<contents, nextId, found, chunker, document, embedder>>

\* the catch block: the failure is recorded, and the call throws
UrlRecordFailure(p) ==
    /\ pc[p] = "url.recordFailure"
    /\ LET id == run[p].contentId
           url == run[p].url
           errorMsg == run[p].errorMsg
           thrown == Wrap("Failed to process URL: ", errorMsg)
       IN  \/ /\ ~createRejected(id)
              /\ contents' = create(id, NewContent(urlType(url[1]), url, "failed",
                                                   Some(errorMsg)))
              /\ Thrown(p, "processUrl", thrown, "ok", <<>>)
           \/ /\ \E e \in StoreErrors(IF createRejected(id) THEN Some(DuplicateKey) ELSE Null) :
                    Thrown(p, "processUrl", thrown, "rejected", getErrorMessage(e))
              /\ UNCHANGED contents
    /\ UNCHANGED <<chunks, nextId, run, found, chunker, document, embedder>>

----------------------------------------------------------------------------
(* ContentService.processImage *)

\* the call, up to the end of Step 4: the image is uploaded and analyzed (its
\* title, description and tags are the text), and its row is inserted
ImageCreate(p) ==
    /\ pc[p] = "idle"
    /\ nextId <= MaxItems
    /\ nextId' = nextId + 1
    /\ LET id == nextId
           started == [IdleRun EXCEPT !.op = "processImage", !.contentId = id]
       IN  \/ \E e \in UploadErrors \cup AnalyzeErrors :
                /\ run' = [run EXCEPT ![p] = [started EXCEPT !.errorMsg = getErrorMessage(e)]]
                /\ Goto(p, "image.recordFailure")
                /\ UNCHANGED contents
           \/ \E doc \in Docs :
                /\ ~createRejected(id)
                /\ contents' = create(id, NewContent("image", Null, "completed", Null))
                /\ run' = [run EXCEPT ![p] = [started EXCEPT !.doc = doc]]
                /\ Goto(p, "image.embed")
           \/ \E e \in StoreErrors(IF createRejected(id) THEN Some(DuplicateKey) ELSE Null) :
                /\ run' = [run EXCEPT ![p] = [started EXCEPT !.errorMsg = getErrorMessage(e)]]
                /\ Goto(p, "image.recordFailure")
                /\ UNCHANGED contents
    /\ UNCHANGED <<chunks, result, found, chunker, document, embedder>>

\* Steps 5 and 6: the chunks are cut, the provider returns their vectors, the
\* chunks are inserted and the call returns
ImageCreateChunks(p) ==
    /\ pc[p] = "image.embed"
    /\ LET id == run[p].contentId
           data == chunksWithEmbeddings(run[p].doc)
           rejected == createChunksRejected(id, data)
       IN  \/ /\ \E e \in ProviderErrors :
                    Catch(p, Wrap("Failed to generate embeddings: ", getErrorMessage(e)),
                          "image.recordFailure")
              /\ UNCHANGED <<chunks, result>>
           \/ /\ rejected = Null
              /\ chunks' = createChunks(id, data)
              /\ Returned(p, "processImage", TRUE, <<>>, "none", <<>>, Len(data))
              /\ UNCHANGED run
           \/ /\ \E e \in StoreErrors(rejected) : Catch(p, e, "image.recordFailure")
              /\ UNCHANGED <<chunks, result>>
    /\ UNCHANGED <<contents, nextId, found, chunker, document, embedder>>

\* the catch block: the failure is recorded, and the call returns the error
ImageRecordFailure(p) ==
    /\ pc[p] = "image.recordFailure"
    /\ LET id == run[p].contentId
           errorMsg == run[p].errorMsg
       IN  \/ /\ ~createRejected(id)
              /\ contents' = create(id, NewContent("image", Null, "failed", Some(errorMsg)))
              /\ Returned(p, "processImage", FALSE, errorMsg, "ok", <<>>, 0)
           \/ /\ \E e \in StoreErrors(IF createRejected(id) THEN Some(DuplicateKey) ELSE Null) :
                    Returned(p, "processImage", FALSE, errorMsg, "rejected",
                             getErrorMessage(e), 0)
              /\ UNCHANGED contents
    /\ UNCHANGED <<chunks, nextId, run, found, chunker, document, embedder>>

----------------------------------------------------------------------------
(* ContentService.retryFailedContent *)

\* the checks without the one on the status
retryRejectionAnyStatus(content) ==
    IF content = Null THEN Some(Msg("Content not found"))
    ELSE IF content[1].type = "image" \/ content[1].url = Null
    THEN Some(Msg("Image content requires re-upload to retry"))
    ELSE Null

\* the three checks on the row found: the error thrown, or none
retryRejection(content) ==
    IF content = Null THEN Some(Msg("Content not found"))
    ELSE IF content[1].status # "failed" THEN Some(Msg("Content is not in failed state"))
    ELSE IF content[1].type = "image" \/ content[1].url = Null
    THEN Some(Msg("Image content requires re-upload to retry"))
    ELSE Null

findById(id) == IF id \in DOMAIN contents THEN Some(contents[id]) ELSE Null

\* a worker that is inside the pipeline of a retry of this item
Retrying(q, id) ==
    /\ run[q].op = "retry"
    /\ run[q].contentId = id
    /\ pc[q] \notin {"idle", "done"}

\* the call, up to the end of findById and the checks that follow it; the
\* field overlapped records that two retries of one item run at once, the
\* field attemptsAtStart the attempt counter of the row found
RetryFind(p, id) ==
    /\ pc[p] = "idle"
    /\ \/ /\ run' = [run EXCEPT ![p] = [IdleRun EXCEPT !.op = "retry", !.contentId = id]]
          /\ Thrown(p, "retry", StoreDown, "none", <<>>)
       \/ LET content == findById(id)
              rejected == retryRejection(content)
          IN  IF rejected # Null
              THEN /\ run' = [run EXCEPT ![p] = [IdleRun EXCEPT !.op = "retry",
                                                               !.contentId = id]]
                   /\ Thrown(p, "retry", rejected[1], "none", <<>>)
              ELSE /\ content[1].processingAttempts < MaxAttempts
                   /\ run' = [q \in Workers |->
                        IF q = p
                        THEN [IdleRun EXCEPT !.op = "retry", !.contentId = id,
                                 !.url = content[1].url,
                                 !.attemptsAtStart = content[1].processingAttempts,
                                 !.overlapped = \E o \in Workers \ {p} : Retrying(o, id)]
                        ELSE IF Retrying(q, id) THEN [run[q] EXCEPT !.overlapped = TRUE]
                        ELSE run[q]]
                   /\ Goto(p, "retry.markProcessing")
                   /\ UNCHANGED result
    /\ UNCHANGED <<contents, chunks, nextId, found, chunker, document, embedder>>

\* updateStatus(contentId, 'processing'), outside the try block
RetryMarkProcessing(p) ==
    /\ pc[p] = "retry.markProcessing"
    /\ \/ /\ contents' = updateStatus(run[p].contentId, "processing", Null)
          /\ Goto(p, "retry.extract")
          /\ UNCHANGED result
       \/ /\ Thrown(p, "retry", StoreDown, "none", <<>>)
          /\ UNCHANGED contents
    /\ UNCHANGED <<chunks, nextId, run, found, chunker, document, embedder>>

\* Steps 1 and 2: the content is extracted again and its row is updated
RetryUpdate(p) ==
    /\ pc[p] = "retry.extract"
    /\ \/ /\ \E e \in extractErrors(run[p].url[1]) : Catch(p, e, "retry.recordFailure")
          /\ UNCHANGED contents
       \/ \E doc \in Docs :
            /\ contents' = update(run[p].contentId, "completed", Null)
            /\ run' = [run EXCEPT ![p].doc = doc]
            /\ Goto(p, "retry.deleteChunks")
       \/ /\ Catch(p, StoreDown, "retry.recordFailure")
          /\ UNCHANGED contents
    /\ UNCHANGED <<chunks, nextId, result, found, chunker, document, embedder>>

\* Step 3: the chunks of the item are deleted
RetryDeleteChunks(p) ==
    /\ pc[p] = "retry.deleteChunks"
    /\ \/ /\ chunks' = deleteChunks(run[p].contentId)
          /\ Goto(p, "retry.embed")
          /\ UNCHANGED run
       \/ /\ Catch(p, StoreDown, "retry.recordFailure")
          /\ UNCHANGED chunks
    /\ UNCHANGED <<contents, nextId, result, found, chunker, document, embedder>>

\* the chunks are cut, the provider returns their vectors, the chunks are
\* inserted and the call returns
RetryCreateChunks(p) ==
    /\ pc[p] = "retry.embed"
    /\ LET id == run[p].contentId
           data == chunksWithEmbeddings(run[p].doc)
           rejected == createChunksRejected(id, data)
       IN  \/ /\ \E e \in ProviderErrors :
                    Catch(p, Wrap("Failed to generate embeddings: ", getErrorMessage(e)),
                          "retry.recordFailure")
              /\ UNCHANGED <<chunks, result>>
           \/ /\ rejected = Null
              /\ chunks' = createChunks(id, data)
              /\ Returned(p, "retry", TRUE, <<>>, "none", <<>>, Len(data))
              /\ UNCHANGED run
           \/ /\ \E e \in StoreErrors(rejected) : Catch(p, e, "retry.recordFailure")
              /\ UNCHANGED <<chunks, result>>
    /\ UNCHANGED <<contents, nextId, found, chunker, document, embedder>>

\* the catch block: the status goes back to failed, and the call throws
RetryRecordFailure(p) ==
    /\ pc[p] = "retry.recordFailure"
    /\ LET errorMsg == run[p].errorMsg
       IN  \/ /\ contents' = updateStatus(run[p].contentId, "failed", Some(errorMsg))
              /\ Thrown(p, "retry", Wrap("Failed to retry content: ", errorMsg), "ok", <<>>)
           \/ /\ Thrown(p, "retry", StoreDown, "rejected", StoreDown)
              /\ UNCHANGED contents
    /\ UNCHANGED <<chunks, nextId, run, found, chunker, document, embedder>>

\* handleRetryUrl: the response to a retry request
handleRetryUrl(res) ==
    IF res.outcome = "returned"
    THEN [status |-> 200, success |-> TRUE, error |-> <<>>]
    ELSE IF res.error = Msg("Content not found")
    THEN [status |-> 404, success |-> FALSE, error |-> res.error]
    ELSE IF res.error \in {Msg("Content is not in failed state"),
                           Msg("Image content requires re-upload to retry")}
    THEN [status |-> 400, success |-> FALSE, error |-> res.error]
    ELSE [status |-> 500, success |-> FALSE, error |-> getSafeErrorMessage(res.error)]

\* handleProcessUrl: the response to a request to process a URL
handleProcessUrl(res) ==
    IF res.outcome = "returned"
    THEN [status |-> 200, success |-> TRUE, error |-> <<>>]
    ELSE [status |-> 500, success |-> FALSE, error |-> getSafeErrorMessage(res.error)]

\* handleUploadImages: the response to an upload, results being what
\* processImage returned for each file
handleUploadImages(results) ==
    [status |-> 200, success |-> TRUE,
     results |-> [k \in DOMAIN results |->
                    [success |-> results[k].success, error |-> results[k].error]]]

\* the caller has its answer; the worker serves the next request
Return(p) ==
    /\ pc[p] = "done"
    /\ pc' = [pc EXCEPT ![p] = "idle"]
    /\ run' = [run EXCEPT ![p] = IdleRun]
    /\ result' = [result EXCEPT ![p] = NoResult]
    /\ UNCHANGED <<contents, chunks, nextId, found, chunker, document, embedder>>

----------------------------------------------------------------------------
(* contentRepository.searchByEmbedding, called with the vector of a query *)

Search(q, limit, threshold, type) ==
    /\ found = NoSearch
    /\ \/ \E rows \in searchByEmbedding(EmbeddingOf(q), limit, threshold, type) :
            found' = [outcome |-> "returned", args |-> <<q, limit, threshold, type>>,
                      rows |-> rows]
       \/ found' = [outcome |-> "thrown", args |-> <<q, limit, threshold, type>>,
                    rows |-> <<>>]
    /\ UNCHANGED <<contents, chunks, nextId, pc, run, result, chunker, document, embedder>>

\* a listing that counts an attempt on every row it returns
RecentCounting(limit) ==
    /\ found = NoSearch
    /\ found' = [outcome |-> "recent", args |-> <<limit>>, rows |-> findRecent(limit)]
    /\ contents' = [i \in DOMAIN contents |->
            IF contents[i].status = "completed"
            THEN [contents[i] EXCEPT !.processingAttempts = @ + 1] ELSE contents[i]]
    /\ UNCHANGED <<chunks, nextId, pc, run, result, chunker, document, embedder>>

\* handleGetRecent: contentRepository.findRecent, called with a limit
Recent(limit) ==
    /\ found = NoSearch
    /\ \/ found' = [outcome |-> "recent", args |-> <<limit>>, rows |-> findRecent(limit)]
       \/ found' = [outcome |-> "thrown", args |-> <<limit>>, rows |-> <<>>]
    /\ UNCHANGED <<contents, chunks, nextId, pc, run, result, chunker, document, embedder>>

\* the caller has the answer of its search
Deliver ==
    /\ found # NoSearch
    /\ found' = NoSearch
    /\ UNCHANGED <<contents, chunks, nextId, pc, run, result, chunker, document, embedder>>

----------------------------------------------------------------------------

Next ==
    \E p \in Workers :
        \/ \E url \in Urls : UrlCreate(p, url)
        \/ UrlCreateChunks(p)
        \/ UrlRecordFailure(p)
        \/ ImageCreate(p)
        \/ ImageCreateChunks(p)
        \/ ImageRecordFailure(p)
        \/ \E id \in 1..MaxItems : RetryFind(p, id)
        \/ RetryMarkProcessing(p)
        \/ RetryUpdate(p)
        \/ RetryDeleteChunks(p)
        \/ RetryCreateChunks(p)
        \/ RetryRecordFailure(p)
        \/ Return(p)

Spec == Init /\ [][Next]_vars

----------------------------------------------------------------------------
(* The search on its own: the query over the stores the pipelines leave *)

\* The rows an item can be found with, and what its chunks were cut from
\* (<<>>: it has none).  A URL item is completed from its insertion on, with
\* chunks once its run ends; failed when its extraction failed; processing
\* once a retry is admitted; and, when two retries of it overlap, processing
\* or failed with the chunks one of them wrote.  An image is never retried.
UrlShapes(url) ==
    LET row(status, errorMessage, attempts) ==
            [NewContent(urlType(url), Some(url), status, errorMessage)
                EXCEPT !.processingAttempts = attempts]
    IN  {<<row("completed", Null, 0), doc>> : doc \in Docs \cup {<<>>}}
        \cup {<<row("failed", Some(Msg("timeout")), 0), <<>>>>,
              <<row("processing", Null, 1), <<>>>>}
        \cup {<<row("processing", Null, 2), doc>> : doc \in Docs}
        \cup {<<row("failed", Some(Msg("timeout")), 3), doc>> : doc \in Docs}

ImageShapes ==
    {<<NewContent("image", Null, "completed", Null), doc>> : doc \in Docs \cup {<<>>}}
    \cup {<<NewContent("image", Null, "failed", Some(Msg("timeout"))), <<>>>>}

ItemShapes == ImageShapes \cup UNION {UrlShapes(url) : url \in Urls}

InitSearch ==
    /\ \E ids \in SUBSET (1..MaxStored) : \E shape \in [ids -> ItemShapes] :
            /\ contents = [i \in ids |-> shape[i][1]]
            /\ chunks = UNION {chunksToInsert(i, chunksWithEmbeddings(shape[i][2])) :
                                    i \in ids}
    /\ nextId = MaxStored + 1
    /\ pc = [p \in Workers |-> "idle"]
    /\ run = [p \in Workers |-> IdleRun]
    /\ result = [p \in Workers |-> NoResult]
    /\ found = NoSearch
    /\ chunker = NoCall
    /\ document = NoCall
    /\ embedder = NoCall

NextSearch ==
    \/ \E q \in QueryTexts, limit \in 1..MaxLimit, threshold \in Thresholds,
          type \in TypeFilters : Search(q, limit, threshold, type)
    \/ \E limit \in 1..MaxLimit : Recent(limit)
    \/ Deliver

SpecSearch == InitSearch /\ [][NextSearch]_vars

----------------------------------------------------------------------------
(* Properties of the pipelines (Spec) *)

\* C1: an item is stored as completed only after its chunks were embedded and
\* persisted: as long as a create or retry run has not written its chunks, the
\* item it works on is not stored as completed.
C1_CompletedOnlyAfterChunks ==
    \A p \in Workers :
        (/\ pc[p] \in {"url.embed", "image.embed", "retry.deleteChunks", "retry.embed"}
         /\ ~run[p].overlapped
         /\ run[p].contentId \in DOMAIN contents)
            => contents[run[p].contentId].status # "completed"

\* C2: when a create call ends in failure and its failure record was not
\* refused by an unreachable store, the item is stored as failed with the
\* error message of the failure.
C2_FailedCreateStoredFailed ==
    [][\A p \in Workers :
          (/\ pc[p] \in {"url.recordFailure", "image.recordFailure"}
           /\ pc'[p] = "done"
           /\ result'[p].recordError # StoreDown)
              => /\ run[p].contentId \in DOMAIN contents'
                 /\ contents'[run[p].contentId].status = "failed"
                 /\ contents'[run[p].contentId].errorMessage = Some(run[p].errorMsg)]_vars

\* C3: a retry enters the pipeline only when the item exists, is failed, is
\* not an image and has a URL; any other retry ends with an error (404 for an
\* unknown item, 400 for the other two refusals) and leaves the rows of the
\* store, its chunks included, as they were.
C3_RetryAdmission ==
    [][\A p \in Workers :
          (pc[p] = "idle" /\ run'[p].op = "retry")
              => LET id == run'[p].contentId
                     admissible == /\ id \in DOMAIN contents
                                   /\ contents[id].status = "failed"
                                   /\ contents[id].type # "image"
                                   /\ contents[id].url # Null
                 IN  /\ pc'[p] = "retry.markProcessing" => admissible
                     /\ ~admissible =>
                            /\ pc'[p] = "done"
                            /\ result'[p].outcome = "thrown"
                            /\ ~handleRetryUrl(result'[p]).success
                            /\ result'[p].error # StoreDown =>
                                  handleRetryUrl(result'[p]).status =
                                      IF id \in DOMAIN contents THEN 400 ELSE 404
                            /\ contents' = contents
                            /\ chunks' = chunks]_vars

\* a retry of a completed or processing item was refused
C3_Witness ==
    \E p \in Workers :
        /\ pc[p] = "done"
        /\ result[p].op = "retry"
        /\ result[p].error = Msg("Content is not in failed state")
        /\ handleRetryUrl(result[p]).status = 400
        /\ run[p].contentId \in DOMAIN contents
        /\ contents[run[p].contentId].status \in {"completed", "processing"}

C5_RecordFailureNotRaised ==
    \A p \in Workers :
        (pc[p] = "done" /\ result[p].recordWrite = "rejected")
            => result[p].error =
                  CASE result[p].op = "processUrl" ->
                          Wrap("Failed to process URL: ", run[p].errorMsg)
                    [] result[p].op = "processImage" -> run[p].errorMsg
                    [] result[p].op = "retry" ->
                          Wrap("Failed to retry content: ", run[p].errorMsg)

----------------------------------------------------------------------------
(* Properties of the search (SpecSearch): found holds the arguments and the
   rows of a search of the store as it is *)

\* C11: search and recent are pure reads: a call of either, answered or failed,
\* leaves every row of contents (status, error message and attempt counter
\* included) and every chunk as it was.
C11_ReadsLeaveStore ==
    [][(found = NoSearch /\ found' # NoSearch)
          => (contents' = contents /\ chunks' = chunks)]_vars

\* recent has listed completed items of a store that holds chunks and an item
\* that is not completed
C11_Witness ==
    /\ found.outcome = "recent"
    /\ Len(found.rows) >= 1
    /\ chunks # {}
    /\ \E i \in DOMAIN contents : contents[i].status # "completed"
    /\ \A k \in DOMAIN found.rows : contents[found.rows[k].id].processingAttempts = 0

\* C6: a search returns an item at most once, with the similarity and the
\* text of a chunk of the item that has a vector and whose similarity to the
\* query no other such chunk of the item exceeds.
C6_BestChunkOncePerItem ==
    found.outcome = "returned" =>
        LET rows == found.rows
            sim(c) == Similarity(c.embedding[1], EmbeddingOf(found.args[1]))
            withVector(id) == {c \in chunks : c.contentId = id /\ c.embedding # Null}
        IN  /\ \A i, j \in DOMAIN rows : i # j => rows[i].id # rows[j].id
            /\ \A i \in DOMAIN rows :
                  \E c \in withVector(rows[i].id) :
                      /\ rows[i].similarity = sim(c)
                      /\ rows[i].matchedChunk = c.content
                      /\ \A d \in withVector(rows[i].id) : sim(d) <= sim(c)

\* an item with two chunks above the threshold is returned with the better one
C6_Witness ==
    /\ found.outcome = "returned"
    /\ LET sim(c) == Similarity(c.embedding[1], EmbeddingOf(found.args[1]))
       IN  \E i \in DOMAIN found.rows : \E c, d \in chunks :
              /\ c.contentId = found.rows[i].id
              /\ d.contentId = found.rows[i].id
              /\ found.args[3] < sim(d)
              /\ sim(d) < sim(c)
              /\ found.rows[i].similarity = sim(c)
              /\ found.rows[i].matchedChunk = c.content

\* C7: a search returns no item whose status is not completed.
C7_OnlyCompleted ==
    found.outcome = "returned" =>
        \A i \in DOMAIN found.rows :
            /\ found.rows[i].id \in DOMAIN contents
            /\ contents[found.rows[i].id].status = "completed"
            /\ found.rows[i].status = "completed"

\* an item that is failed or processing has a chunk above the threshold and
\* passes the type filter, there is room under the limit, and it is left out
C7_Witness ==
    /\ found.outcome = "returned"
    /\ Len(found.rows) < found.args[2]
    /\ \E id \in DOMAIN contents : \E c \in chunks :
          /\ contents[id].status \in {"failed", "processing"}
          /\ found.args[4] \in {"all", contents[id].type}
          /\ c.contentId = id
          /\ Similarity(c.embedding[1], EmbeddingOf(found.args[1])) > found.args[3]
          /\ \A i \in DOMAIN found.rows : found.rows[i].id # id

\* C8: with a type filter other than "all" every item returned has that type;
\* with "all" no item is left out for its type: a completed item with a chunk
\* above the threshold is left out only when the limit is reached by items
\* at least as similar.
C8_TypeFilter ==
    found.outcome = "returned" =>
        LET rows == found.rows
            type == found.args[4]
            sim(c) == Similarity(c.embedding[1], EmbeddingOf(found.args[1]))
        IN  /\ type # "all" =>
                  \A i \in DOMAIN rows : /\ contents[rows[i].id].type = type
                                         /\ rows[i].type = type
            /\ type = "all" =>
                  \A c \in chunks :
                      (/\ c.embedding # Null
                       /\ sim(c) > found.args[3]
                       /\ contents[c.contentId].status = "completed"
                       /\ \A i \in DOMAIN rows : rows[i].id # c.contentId)
                          => /\ Len(rows) = found.args[2]
                             /\ \A i \in DOMAIN rows : rows[i].similarity >= sim(c)

\* a search for one type returns an item, and leaves out a completed item of
\* another type that has a chunk above the threshold, with room under the limit
C8_Witness ==
    /\ found.outcome = "returned"
    /\ found.args[4] # "all"
    /\ Len(found.rows) >= 1
    /\ Len(found.rows) < found.args[2]
    /\ \E id \in DOMAIN contents : \E c \in chunks :
          /\ contents[id].status = "completed"
          /\ contents[id].type # found.args[4]
          /\ c.contentId = id
          /\ Similarity(c.embedding[1], EmbeddingOf(found.args[1])) > found.args[3]
          /\ \A i \in DOMAIN found.rows : found.rows[i].id # id

\* C9: every item returned has a similarity strictly above the threshold; an
\* item none of whose chunks is strictly above it, one at the threshold
\* exactly included, is not returned.
C9_StrictThreshold ==
    found.outcome = "returned" =>
        LET rows == found.rows
            threshold == found.args[3]
            sim(c) == Similarity(c.embedding[1], EmbeddingOf(found.args[1]))
        IN  /\ \A i \in DOMAIN rows : rows[i].similarity > threshold
            /\ \A id \in DOMAIN contents :
                  (\A c \in chunks :
                      (c.contentId = id /\ c.embedding # Null) => sim(c) <= threshold)
                      => \A i \in DOMAIN rows : rows[i].id # id

\* a completed item that passes the type filter has its best chunk at the
\* threshold exactly, there is room under the limit, and it is left out
C9_Witness ==
    /\ found.outcome = "returned"
    /\ Len(found.rows) < found.args[2]
    /\ LET sim(c) == Similarity(c.embedding[1], EmbeddingOf(found.args[1]))
       IN  \E id \in DOMAIN contents :
              /\ contents[id].status = "completed"
              /\ found.args[4] \in {"all", contents[id].type}
              /\ \E c \in chunks : c.contentId = id /\ sim(c) = found.args[3]
              /\ \A c \in chunks : c.contentId = id => sim(c) <= found.args[3]
              /\ \A i \in DOMAIN found.rows : found.rows[i].id # id

\* C10: the rows come in non-increasing order of similarity, there are at most
\* limit of them, and they are the top ones: an eligible item (completed, of
\* the type asked for, with a chunk above the threshold) is left out only when
\* the limit is reached, and then no chunk of it is more similar than an item
\* returned.
C10_OrderedTopLimit ==
    found.outcome = "returned" =>
        LET rows == found.rows
            limit == found.args[2]
            sim(c) == Similarity(c.embedding[1], EmbeddingOf(found.args[1]))
            eligible(c) == /\ c.embedding # Null
                           /\ sim(c) > found.args[3]
                           /\ contents[c.contentId].status = "completed"
                           /\ found.args[4] \in {"all", contents[c.contentId].type}
        IN  /\ Len(rows) <= limit
            /\ \A i, j \in DOMAIN rows : i < j => rows[i].similarity >= rows[j].similarity
            /\ \A c \in chunks :
                  (eligible(c) /\ \A i \in DOMAIN rows : rows[i].id # c.contentId)
                      => /\ Len(rows) = limit
                         /\ \A i \in DOMAIN rows : sim(c) <= rows[i].similarity

\* two items are eligible, the limit is 1, and the more similar one is returned
C10_Witness ==
    /\ found.outcome = "returned"
    /\ found.args[2] = 1
    /\ Len(found.rows) = 1
    /\ \E c \in chunks :
          /\ c.contentId # found.rows[1].id
          /\ contents[c.contentId].status = "completed"
          /\ found.args[4] \in {"all", contents[c.contentId].type}
          /\ Similarity(c.embedding[1], EmbeddingOf(found.args[1])) > found.args[3]
          /\ Similarity(c.embedding[1], EmbeddingOf(found.args[1])) < found.rows[1].similarity

----------------------------------------------------------------------------
(* lib/ai/embeddings.ts: chunkText.  A text is the sequence of its characters;
   offsets count from 0 as in the code. *)

\* longest text a chunkText call is given
MaxTextLen == 4
\* largest maxChunkSize and overlapSize a call is given
MaxSize == 4
MaxOverlap == 2
\* iterations of the while loop that are followed
MaxIterations == 12

Chars == {"a", " ", ".", "\n"}
Texts == UNION {[1..n -> Chars] : n \in 0..MaxTextLen}

\* what \s matches and trim() strips
Whitespace == {" ", "\n"}

Max(a, b) == IF a > b THEN a ELSE b

RECURSIVE trimStart(_)
trimStart(s) == IF s # <<>> /\ Head(s) \in Whitespace THEN trimStart(Tail(s)) ELSE s

RECURSIVE trimEnd(_)
trimEnd(s) ==
    IF s # <<>> /\ s[Len(s)] \in Whitespace THEN trimEnd(SubSeq(s, 1, Len(s) - 1)) ELSE s

trim(s) == trimEnd(trimStart(s))

\* text.replace(/\s+/g, ' '): every run of whitespace becomes one space
RECURSIVE collapseWhitespace(_)
collapseWhitespace(s) ==
    IF s = <<>> THEN <<>>
    ELSE IF Head(s) \in Whitespace
    THEN <<" ">> \o collapseWhitespace(trimStart(s))
    ELSE <<Head(s)>> \o collapseWhitespace(Tail(s))

\* s.substring(from, to)
substring(s, from, to) == SubSeq(s, Max(from, 0) + 1, Min(to, Len(s)))

\* s.lastIndexOf(pattern): the last offset pattern occurs at, or -1
lastIndexOf(s, pattern) ==
    LET at == {i \in 0..(Len(s) - Len(pattern)) :
                  substring(s, i, i + Len(pattern)) = pattern}
    IN  IF at = {} THEN -1 ELSE CHOOSE i \in at : \A j \in at : j <= i

\* the search for a sentence boundary reaches this far back from the cut
BoundaryWindow == 200

\* a call that has not run yet (siblings: for a text that is a chunk of an
\* earlier result, the number of chunks of that result)
chunkTextCall(caller, text, maxChunkSize, overlapSize) ==
    [pc |-> "called", caller |-> caller, text |-> text,
     maxChunkSize |-> maxChunkSize, overlapSize |-> overlapSize,
     cleanedText |-> <<>>, currentPosition |-> 0, chunks |-> <<>>, iter |-> 0,
     siblings |-> 0]

\* the entry with < in place of <= in the test for a text that fits
chunkTextEntryStrict(call) ==
    LET cleanedText == trim(collapseWhitespace(call.text))
    IN  IF Len(call.text) = 0 \/ Len(trim(call.text)) = 0
        THEN [call EXCEPT !.pc = "returned"]
        ELSE IF Len(cleanedText) < call.maxChunkSize
        THEN [call EXCEPT !.pc = "returned", !.cleanedText = cleanedText,
                          !.chunks = <<[content |-> cleanedText, chunkIndex |-> 0,
                                        startOffset |-> 0,
                                        endOffset |-> Len(cleanedText)]>>]
        ELSE [call EXCEPT !.pc = "loop", !.cleanedText = cleanedText]

\* the call up to the while loop: no chunk for a blank text, one chunk for a
\* cleaned text that fits
chunkTextEntry(call) ==
    LET cleanedText == trim(collapseWhitespace(call.text))
    IN  IF Len(call.text) = 0 \/ Len(trim(call.text)) = 0
        THEN [call EXCEPT !.pc = "returned"]
        ELSE IF Len(cleanedText) <= call.maxChunkSize
        THEN [call EXCEPT !.pc = "returned", !.cleanedText = cleanedText,
                          !.chunks = <<[content |-> cleanedText, chunkIndex |-> 0,
                                        startOffset |-> 0,
                                        endOffset |-> Len(cleanedText)]>>]
        ELSE [call EXCEPT !.pc = "loop", !.cleanedText = cleanedText]

\* where the chunk that starts at currentPosition ends: at most maxChunkSize
\* further, moved back to just after the last sentence boundary in the window
endPositionOf(cleanedText, currentPosition, maxChunkSize) ==
    LET endPosition == Min(currentPosition + maxChunkSize, Len(cleanedText))
        searchStart == Max(currentPosition, endPosition - BoundaryWindow)
        searchText == substring(cleanedText, searchStart, endPosition)
        positions == {lastIndexOf(searchText, <<".", " ">>),
                   lastIndexOf(searchText, <<"!", " ">>),
                   lastIndexOf(searchText, <<"?", " ">>),
                   lastIndexOf(searchText, <<"\n">>)}
        boundaries == {searchStart + pos + 1 : pos \in {q \in positions : q > 0}}
    IN  IF endPosition < Len(cleanedText) /\ boundaries # {}
        THEN CHOOSE b \in boundaries : \A c \in boundaries : c <= b
        ELSE endPosition

\* one iteration of the while loop
chunkTextIteration(call) ==
    LET endPosition == endPositionOf(call.cleanedText, call.currentPosition,
                                     call.maxChunkSize)
        chunkContent == trim(substring(call.cleanedText, call.currentPosition, endPosition))
        chunks1 == IF Len(chunkContent) > 0
                   THEN Append(call.chunks,
                               [content |-> chunkContent, chunkIndex |-> Len(call.chunks),
                                startOffset |-> call.currentPosition,
                                endOffset |-> endPosition])
                   ELSE call.chunks
        moved == endPosition - call.overlapSize
    IN  [call EXCEPT !.chunks = chunks1,
                     !.iter = @ + 1,
                     !.currentPosition =
                        IF chunks1 # <<>> /\ moved <= chunks1[Len(chunks1)].startOffset
                        THEN endPosition ELSE moved]

ChunkTextStart ==
    /\ chunker.pc = "called"
    /\ chunker' = chunkTextEntry(chunker)
    /\ UNCHANGED <<contents, chunks, nextId, pc, run, result, found, document, embedder>>

ChunkTextLoop ==
    /\ chunker.pc = "loop"
    /\ chunker.currentPosition < Len(chunker.cleanedText)
    /\ chunker.iter < MaxIterations
    /\ chunker' = chunkTextIteration(chunker)
    /\ UNCHANGED <<contents, chunks, nextId, pc, run, result, found, document, embedder>>

ChunkTextReturn ==
    /\ chunker.pc = "loop"
    /\ chunker.currentPosition >= Len(chunker.cleanedText)
    /\ chunker' = [chunker EXCEPT !.pc = "returned"]
    /\ UNCHANGED <<contents, chunks, nextId, pc, run, result, found, document, embedder>>

\* a chunk that was returned is given to chunkText again
Rechunk ==
    /\ chunker.pc = "returned"
    /\ chunker.caller = "user"
    /\ \E i \in DOMAIN chunker.chunks :
          chunker' = [chunkTextCall("rechunk", chunker.chunks[i].content,
                                    chunker.maxChunkSize, chunker.overlapSize)
                         EXCEPT !.siblings = Len(chunker.chunks)]
    /\ UNCHANGED <<contents, chunks, nextId, pc, run, result, found, document, embedder>>

----------------------------------------------------------------------------
(* lib/ai/embeddings.ts: detectSections and chunkDocument *)

\* most lines a document given to chunkDocument has
MaxLines == 3

\* the lines documents are made of: empty, plain text, headings, and a line
\* that starts with # but is no heading
Lines == {<<>>, <<"a">>, <<"a", " ", "a">>, <<"#", " ", "a">>, <<"#", " ", "b">>,
          <<"#", "a">>}

RECURSIVE joinLines(_)
joinLines(ls) ==
    IF Len(ls) = 1 THEN ls[1] ELSE ls[1] \o <<"\n">> \o joinLines(Tail(ls))

DocTexts == {joinLines(ls) : ls \in UNION {[1..n -> Lines] : n \in 1..MaxLines}}

\* text.split('\n')
RECURSIVE split(_)
split(text) ==
    IF \A i \in DOMAIN text : text[i] # "\n" THEN <<text>>
    ELSE LET n == CHOOSE i \in DOMAIN text :
                      text[i] = "\n" /\ \A j \in 1..(i - 1) : text[j] # "\n"
         IN  <<SubSeq(text, 1, n - 1)>> \o split(SubSeq(text, n + 1, Len(text)))

\* the number of # a text starts with
RECURSIVE leadingHashes(_)
leadingHashes(s) == IF s # <<>> /\ Head(s) = "#" THEN 1 + leadingHashes(Tail(s)) ELSE 0

\* SECTION_PATTERNS on a trimmed line: ^(#{1,6})\s+(.+)$ is the one pattern
\* that a line of these characters (no digit, no capital, no word) can match
isHeading(line) ==
    LET t == trim(line)
        k == leadingHashes(t)
    IN  k >= 1 /\ k <= 6 /\ Len(t) > k /\ t[k + 1] \in Whitespace

\* match[2].trim()
headingTitle(line) ==
    LET t == trim(line)
    IN  trim(SubSeq(t, leadingHashes(t) + 1, Len(t)))

\* the for loop of detectSections from line i on, then the code after it
RECURSIVE detectFrom(_, _, _, _, _, _)
detectFrom(text, lines, i, currentOffset, currentSection, sections) ==
    IF i > Len(lines)
    THEN IF currentSection = Null THEN sections
         ELSE LET content == trim(SubSeq(text, currentSection[1].startOffset + 1, Len(text)))
              IN  IF Len(content) > 0
                  THEN Append(sections, [currentSection[1] EXCEPT !.content = content])
                  ELSE sections
    ELSE LET lineStart == currentOffset
             lineEnd == currentOffset + Len(lines[i])
             closed == IF currentSection = Null THEN <<>>
                       ELSE [currentSection[1] EXCEPT
                                !.endOffset = lineStart,
                                !.content = trim(substring(text, currentSection[1].startOffset,
                                                           lineStart))]
             saved == IF currentSection # Null /\ Len(closed.content) > 0
                      THEN Append(sections, closed) ELSE sections
         IN  IF isHeading(lines[i])
             THEN detectFrom(text, lines, i + 1, lineEnd + 1,
                             Some([title |-> headingTitle(lines[i]), content |-> <<>>,
                                   startOffset |-> lineStart, endOffset |-> Len(text)]),
                             saved)
             ELSE detectFrom(text, lines, i + 1, lineEnd + 1, currentSection, sections)

detectSections(text) ==
    LET sections == detectFrom(text, split(text), 1, 0, Null, <<>>)
    IN  IF Len(sections) = 0
        THEN <<[title |-> <<"D", "o", "c", "u", "m", "e", "n", "t">>, content |-> trim(text),
                startOffset |-> 0, endOffset |-> Len(text)]>>
        ELSE sections

\* the chunks of a section kept with the index chunkText gave them
taggedLocalIndex(sectionChunks, section, globalChunkIndex) ==
    [i \in 1..Len(sectionChunks) |->
        [content |-> sectionChunks[i].content,
         chunkIndex |-> sectionChunks[i].chunkIndex,
         startOffset |-> section.startOffset + sectionChunks[i].startOffset,
         endOffset |-> section.startOffset + sectionChunks[i].endOffset,
         section |-> section.title]]

\* the chunks of a section all tagged "Document"
taggedDocument(sectionChunks, section, globalChunkIndex) ==
    [i \in 1..Len(sectionChunks) |->
        [content |-> sectionChunks[i].content,
         chunkIndex |-> globalChunkIndex + i - 1,
         startOffset |-> section.startOffset + sectionChunks[i].startOffset,
         endOffset |-> section.startOffset + sectionChunks[i].endOffset,
         section |-> <<"D", "o", "c", "u", "m", "e", "n", "t">>]]

\* the chunks of a section as chunkDocument keeps them: numbered on from
\* globalChunkIndex, offsets re-based to the document, tagged with the title
tagged(sectionChunks, section, globalChunkIndex) ==
    [i \in 1..Len(sectionChunks) |->
        [content |-> sectionChunks[i].content,
         chunkIndex |-> globalChunkIndex + i - 1,
         startOffset |-> section.startOffset + sectionChunks[i].startOffset,
         endOffset |-> section.startOffset + sectionChunks[i].endOffset,
         section |-> section.title]]

\* a call that has not run yet
chunkDocumentCall(text, maxChunkSize, overlapSize, preserveSections) ==
    [pc |-> "called", text |-> text, maxChunkSize |-> maxChunkSize,
     overlapSize |-> overlapSize, preserveSections |-> preserveSections,
     sections |-> <<>>, next |-> 0, allChunks |-> <<>>]

\* the call up to its first call of chunkText
ChunkDocumentStart ==
    /\ document.pc = "called"
    /\ IF Len(document.text) = 0 \/ Len(trim(document.text)) = 0
       THEN /\ document' = [document EXCEPT !.pc = "returned"]
            /\ UNCHANGED chunker
       ELSE IF Len(document.text) <= document.maxChunkSize
       THEN /\ document' = [document EXCEPT !.pc = "returned",
                    !.allChunks = <<[content |-> trim(document.text), chunkIndex |-> 0,
                                     startOffset |-> 0,
                                     endOffset |-> Len(document.text)]>>]
            /\ UNCHANGED chunker
       ELSE IF document.preserveSections
       THEN LET sections == detectSections(document.text)
            IN  /\ document' = [document EXCEPT !.pc = "chunking",
                                                !.sections = sections, !.next = 1]
                /\ chunker' = chunkTextCall("document", sections[1].content,
                                            document.maxChunkSize, document.overlapSize)
       ELSE /\ document' = [document EXCEPT !.pc = "chunking"]
            /\ chunker' = chunkTextCall("document", document.text,
                                        document.maxChunkSize, document.overlapSize)
    /\ UNCHANGED <<contents, chunks, nextId, pc, run, result, found, embedder>>

\* chunkText has returned: its chunks are kept, and the next section is
\* chunked or the call returns
ChunkDocumentCollect ==
    /\ document.pc = "chunking"
    /\ chunker.pc = "returned"
    /\ IF ~document.preserveSections
       THEN /\ document' = [document EXCEPT !.pc = "returned",
                                            !.allChunks = chunker.chunks]
            /\ chunker' = NoCall
       ELSE LET allChunks == document.allChunks \o
                    tagged(chunker.chunks, document.sections[document.next],
                           Len(document.allChunks))
            IN  IF document.next < Len(document.sections)
                THEN /\ document' = [document EXCEPT !.allChunks = allChunks,
                                                     !.next = @ + 1]
                     /\ chunker' = chunkTextCall("document",
                                        document.sections[document.next + 1].content,
                                        document.maxChunkSize, document.overlapSize)
                ELSE /\ document' = [document EXCEPT !.pc = "returned",
                                                     !.allChunks = allChunks]
                     /\ chunker' = NoCall
    /\ UNCHANGED <<contents, chunks, nextId, pc, run, result, found, embedder>>

\* chunkText or chunkDocument is called once, with any text and any sizes
InitChunk ==
    /\ contents = [i \in {} |-> i]
    /\ chunks = {}
    /\ nextId = 1
    /\ pc = [p \in Workers |-> "idle"]
    /\ run = [p \in Workers |-> IdleRun]
    /\ result = [p \in Workers |-> NoResult]
    /\ found = NoSearch
    /\ embedder = NoCall
    /\ \E maxChunkSize \in 1..MaxSize, overlapSize \in 0..MaxOverlap :
          \/ /\ \E text \in Texts :
                    chunker = chunkTextCall("user", text, maxChunkSize, overlapSize)
             /\ document = NoCall
          \/ /\ \E text \in DocTexts, preserveSections \in BOOLEAN :
                    document = chunkDocumentCall(text, maxChunkSize, overlapSize,
                                                 preserveSections)
             /\ chunker = NoCall

NextChunk ==
    \/ ChunkTextStart
    \/ ChunkTextLoop
    \/ ChunkTextReturn
    \/ Rechunk
    \/ ChunkDocumentStart
    \/ ChunkDocumentCollect

SpecChunk == InitChunk /\ [][NextChunk]_vars

----------------------------------------------------------------------------
(* Properties of chunkText, detectSections and chunkDocument (SpecChunk) *)

\* C12: chunkText terminates: the scan position strictly increases on every
\* iteration of the loop, also on one that emits no chunk.
C12_ScanAdvances ==
    [][(/\ chunker.pc = "loop"
        /\ chunker'.pc = "loop"
        /\ chunker'.iter = chunker.iter + 1)
          => chunker'.currentPosition > chunker.currentPosition]_vars

\* C13: for a text longer than maxChunkSize the spans of the chunks returned
\* cover the text (as cleaned) with no gap: the first starts at 0, each
\* following one starts at or before the end of the one before, and the last
\* ends at the end.
C13_SpansCover ==
    (/\ chunker.pc = "returned"
     /\ Len(chunker.text) > chunker.maxChunkSize
     /\ chunker.chunks # <<>>)
        => LET cs == chunker.chunks
           IN  /\ cs[1].startOffset = 0
               /\ \A i \in 2..Len(cs) : cs[i].startOffset <= cs[i - 1].endOffset
               /\ cs[Len(cs)].endOffset = Len(chunker.cleanedText)

\* C14: for a text shorter than maxChunkSize (and not blank) chunkText returns
\* exactly one chunk, with index 0, whose content is the trimmed text.
C14_ShortTextOneChunk ==
    (/\ chunker.pc = "returned"
     /\ Len(chunker.text) < chunker.maxChunkSize
     /\ trim(chunker.text) # <<>>)
        => /\ Len(chunker.chunks) = 1
           /\ chunker.chunks[1].chunkIndex = 0
           /\ chunker.chunks[1].content = trim(chunker.text)

\* C15: chunking is idempotent: chunkText on the content of a chunk it
\* returned, with the same sizes, returns exactly one chunk with that content.
C15_RechunkIsIdentity ==
    (chunker.pc = "returned" /\ chunker.caller = "rechunk")
        => /\ Len(chunker.chunks) = 1
           /\ chunker.chunks[1].content = chunker.text

\* a chunk as long as maxChunkSize, one of several cut with an overlap, was
\* chunked again
C15_Witness ==
    /\ chunker.pc = "returned"
    /\ chunker.caller = "rechunk"
    /\ chunker.siblings >= 2
    /\ chunker.overlapSize >= 1
    /\ Len(chunker.text) = chunker.maxChunkSize
    /\ Len(chunker.text) >= 2
    /\ Len(chunker.chunks) = 1

\* C16: the chunkIndex values chunkDocument returns are 0, 1, ..., n-1 in
\* output order, whatever the number of sections and with preserveSections
\* true or false.
C16_IndicesContiguous ==
    document.pc = "returned"
        => \A i \in DOMAIN document.allChunks : document.allChunks[i].chunkIndex = i - 1

\* a document of two sections was returned in three chunks or more, the later
\* section cut in two or more
C16_Witness ==
    /\ document.pc = "returned"
    /\ document.preserveSections
    /\ Len(document.sections) >= 2
    /\ Len(document.allChunks) >= 3
    /\ \E i \in DOMAIN document.allChunks :
          /\ i > 1
          /\ document.allChunks[i].section = document.allChunks[i - 1].section
          /\ document.allChunks[i].startOffset >= document.sections[2].startOffset

\* C17: detectSections returns a non-empty sequence of sections that covers
\* the text without gaps: the first starts at 0, each starts where the one
\* before ends, and the last ends at the end of the text (next >= 1: the
\* sections of the text were detected).
C17_SectionsCover ==
    (document.pc \in {"chunking", "returned"} /\ document.next >= 1)
        => LET s == document.sections
           IN  /\ Len(s) > 0
               /\ s[1].startOffset = 0
               /\ \A i \in 2..Len(s) : s[i].startOffset = s[i - 1].endOffset
               /\ s[Len(s)].endOffset = Len(document.text)

\* C18: with preserveSections and a text longer than maxChunkSize, every chunk
\* returned carries the title of a section, lies within the span of that
\* section and holds text of that section only; a section whose content does
\* not fit in one chunk gives two chunks or more.
C18_ChunksStayInSection ==
    (/\ document.pc = "returned"
     /\ document.preserveSections
     /\ Len(document.text) > document.maxChunkSize)
        => LET cs == document.allChunks
               cleaned(s) == trim(collapseWhitespace(s.content))
               within(c, s) ==
                    /\ c.section = s.title
                    /\ s.startOffset <= c.startOffset
                    /\ c.endOffset <= s.endOffset
                    /\ \E k \in 0..(Len(cleaned(s)) - Len(c.content)) :
                          substring(cleaned(s), k, k + Len(c.content)) = c.content
           IN  /\ \A i \in DOMAIN cs :
                    \E j \in DOMAIN document.sections : within(cs[i], document.sections[j])
               /\ \A j \in DOMAIN document.sections :
                    Len(cleaned(document.sections[j])) > document.maxChunkSize
                        => Cardinality({i \in DOMAIN cs :
                                            within(cs[i], document.sections[j])}) >= 2

\* a document of two sections with different titles was returned, the first
\* section in two chunks or more, and chunks under both titles
C18_Witness ==
    /\ document.pc = "returned"
    /\ document.preserveSections
    /\ Len(document.sections) = 2
    /\ document.sections[1].title # document.sections[2].title
    /\ Len(document.allChunks) >= 3
    /\ document.allChunks[1].section = document.sections[1].title
    /\ document.allChunks[2].section = document.sections[1].title
    /\ document.allChunks[Len(document.allChunks)].section = document.sections[2].title

----------------------------------------------------------------------------
(* lib/ai/embeddings.ts: batchGenerateEmbeddings *)

\* most texts a call is given, and its largest batchSize
MaxTexts == 4
MaxBatchSize == 3

EmbedTexts == UNION {[1..n -> QueryTexts] : n \in 0..MaxTexts}

\* Math.ceil(a / b)
ceilDiv(a, b) == (a + b - 1) \div b

\* a call that has not run yet; requested lists the batches handed to
\* generateEmbeddings, progress the calls of onProgress, failed the batch whose
\* request failed (both numbered from 0)
batchCall(texts, batchSize, onProgress) ==
    [pc |-> "called", texts |-> texts, batchSize |-> batchSize,
     onProgress |-> onProgress, batches |-> 0, i |-> 0, allEmbeddings |-> <<>>,
     requested |-> <<>>, progress |-> <<>>, failed |-> Null,
     result |-> Null, error |-> <<>>]

\* texts.slice(start, end) of batch i
batchOf(texts, i, batchSize) ==
    SubSeq(texts, i * batchSize + 1, Min(i * batchSize + batchSize, Len(texts)))

\* the vectors of a batch put in front of those collected so far
unshiftAll(allEmbeddings, embeddings) == embeddings \o allEmbeddings

\* allEmbeddings.push(...embeddings)
pushAll(allEmbeddings, embeddings) == allEmbeddings \o embeddings

\* a failed batch is passed over and the loop goes on
skipBatch(call, error) == [call EXCEPT !.i = @ + 1]

\* generateEmbeddings threw: nothing catches it, the call throws
batchFailed(call, error) == [call EXCEPT !.pc = "thrown", !.error = error]

\* the progress reported with the size of the batch alone
onProgressBatchSize(progress, start, end, total) ==
    Append(progress, <<end - start, total>>)

\* onProgress(end, texts.length) after the batch texts.slice(start, end)
onProgressCalled(progress, start, end, total) == Append(progress, <<end, total>>)

EmbedStart ==
    /\ embedder.pc = "called"
    /\ embedder' = [embedder EXCEPT
                        !.pc = "loop",
                        !.batches = ceilDiv(Len(embedder.texts), embedder.batchSize)]
    /\ UNCHANGED <<contents, chunks, nextId, pc, run, result, found, chunker, document>>

\* one iteration of the for loop: the batch is requested; its vectors are
\* appended and the progress reported, or the request fails
EmbedBatch ==
    /\ embedder.pc = "loop"
    /\ embedder.i < embedder.batches
    /\ LET i == embedder.i
           end == Min(i * embedder.batchSize + embedder.batchSize, Len(embedder.texts))
           batch == batchOf(embedder.texts, i, embedder.batchSize)
           asked == [embedder EXCEPT !.requested = Append(@, i)]
       IN  \/ embedder' =
                [asked EXCEPT
                    !.allEmbeddings = pushAll(@, generateEmbeddings(batch)),
                    !.progress = IF embedder.onProgress
                                 THEN onProgressCalled(@, i * embedder.batchSize, end,
                                                       Len(embedder.texts))
                                 ELSE @,
                    !.i = i + 1]
           \/ \E e \in ProviderErrors :
                embedder' =
                    batchFailed([asked EXCEPT !.failed = Some(i)],
                                Wrap("Failed to generate embeddings: ", getErrorMessage(e)))
    /\ UNCHANGED <<contents, chunks, nextId, pc, run, result, found, chunker, document>>

EmbedReturn ==
    /\ embedder.pc = "loop"
    /\ embedder.i >= embedder.batches
    /\ embedder' = [embedder EXCEPT !.pc = "returned",
                                    !.result = Some(embedder.allEmbeddings)]
    /\ UNCHANGED <<contents, chunks, nextId, pc, run, result, found, chunker, document>>

InitEmbed ==
    /\ contents = [i \in {} |-> i]
    /\ chunks = {}
    /\ nextId = 1
    /\ pc = [p \in Workers |-> "idle"]
    /\ run = [p \in Workers |-> IdleRun]
    /\ result = [p \in Workers |-> NoResult]
    /\ found = NoSearch
    /\ chunker = NoCall
    /\ document = NoCall
    /\ \E texts \in EmbedTexts, batchSize \in 1..MaxBatchSize, onProgress \in BOOLEAN :
          embedder = batchCall(texts, batchSize, onProgress)

NextEmbed ==
    \/ EmbedStart
    \/ EmbedBatch
    \/ EmbedReturn

SpecEmbed == InitEmbed /\ [][NextEmbed]_vars

----------------------------------------------------------------------------
(* Properties of batchGenerateEmbeddings (SpecEmbed) *)

\* C19: on success there are exactly as many vectors as texts, and vector i
\* is the embedding of text i, for every batch size and every number of texts.
C19_OrderAndLength ==
    embedder.pc = "returned"
        => LET vectors == embedder.result[1]
           IN  /\ Len(vectors) = Len(embedder.texts)
               /\ \A k \in DOMAIN vectors : vectors[k] = EmbeddingOf(embedder.texts[k])

\* three texts that differ were embedded in batches of two
C19_Witness ==
    /\ embedder.pc = "returned"
    /\ embedder.batchSize = 2
    /\ Len(embedder.texts) = 3
    /\ embedder.texts[1] # embedder.texts[3]
    /\ embedder.requested = <<0, 1>>
    /\ Len(embedder.result[1]) = 3

\* C20: when the request of a batch fails, the call throws and returns no
\* vector, and the batches requested are those up to the failed one, each
\* once: none after it, and the failed one not again.
C20_FailureAborts ==
    embedder.pc # "idle" /\ embedder.failed # Null
        => /\ embedder.pc = "thrown"
           /\ embedder.result = Null
           /\ embedder.error # <<>>
           /\ Len(embedder.requested) = embedder.failed[1] + 1
           /\ \A k \in DOMAIN embedder.requested : embedder.requested[k] = k - 1

\* the second of three batches failed after the first had succeeded
C20_Witness ==
    /\ embedder.pc = "thrown"
    /\ embedder.batches = 3
    /\ embedder.failed = Some(1)
    /\ Len(embedder.allEmbeddings) >= 1
    /\ embedder.result = Null

\* C21: a call given a progress callback has called it once for each batch
\* that succeeded, in the order of the batches, each time with the number of
\* texts embedded so far and the number of texts; the first number grows
\* strictly from call to call, and on the last call of a call that returned
\* it is the number of texts.
C21_ProgressAfterEachBatch ==
    embedder.pc \in {"loop", "returned", "thrown"} /\ embedder.onProgress
        => LET progress == embedder.progress
               total == Len(embedder.texts)
           IN  /\ Len(progress) = embedder.i
               /\ \A k \in DOMAIN progress :
                     /\ progress[k][1] = Min(k * embedder.batchSize, total)
                     /\ progress[k][2] = total
               /\ progress # <<>>
                     => progress[Len(progress)][1] = Len(embedder.allEmbeddings)
               /\ \A k \in 1..(Len(progress) - 1) : progress[k][1] < progress[k + 1][1]
               /\ embedder.pc = "returned" /\ progress # <<>>
                     => progress[Len(progress)][1] = total

\* four texts in batches of three: the callback was called with 3 and then 4
C21_Witness ==
    /\ embedder.pc = "returned"
    /\ embedder.onProgress
    /\ embedder.batchSize = 3
    /\ embedder.progress = <<(<<3, 4>>), (<<4, 4>>)>>

----------------------------------------------------------------------------
(* Properties of the stored items (Spec) *)

\* C22: an item stored as failed has an error message that is not NULL,
\* whatever the error was and whether a create or a retry failed.
C22_FailedHasErrorMessage ==
    \A id \in DOMAIN contents :
        contents[id].status = "failed" => contents[id].errorMessage # Null

\* C23: an item stored as completed has its completedAt timestamp set, whether
\* a create or a retry completed it.
C23_CompletedHasCompletedAt ==
    \A id \in DOMAIN contents :
        contents[id].status = "completed" => contents[id].completedAt # Null

\* the chunks stored for an item
chunksOf(id) == {c \in chunks : c.contentId = id}

\* C24: in every state, with pipelines running at once, the chunks stored for
\* an item are none, or all the chunks of one run (those of one extracted
\* text, each with its vector): never some of a run's chunks only, never
\* chunks of two runs.
C24_ChunksNeverPartial ==
    \A id \in {c.contentId : c \in chunks} :
        /\ \E doc \in Docs : chunksOf(id) = chunksToInsert(id, chunksWithEmbeddings(doc))
        /\ \A c \in chunksOf(id) : c.embedding # Null

\* two retries of one item ran at once: the insert of one was rejected for a
\* key the other had taken, and the chunks stored are those of the other
C24_Witness ==
    \E p \in Workers :
        /\ result[p].op = "retry"
        /\ result[p].outcome = "thrown"
        /\ result[p].error = Wrap("Failed to retry content: ", DuplicateKey)
        /\ run[p].overlapped
        /\ chunksOf(run[p].contentId) =
              chunksToInsert(run[p].contentId, chunksWithEmbeddings(<<"cat", "dog">>))
        /\ run[p].doc = <<"dog">>

----------------------------------------------------------------------------
(* Properties of the responses (Spec) *)

\* the error strings of the response to the request worker p has served
responseErrors(p) ==
    IF result[p].op = "retry" THEN {handleRetryUrl(result[p]).error}
    ELSE IF result[p].op = "processUrl" THEN {handleProcessUrl(result[p]).error}
    ELSE IF result[p].op = "processImage"
    THEN LET response == handleUploadImages(<<result[p]>>)
         IN  {response.results[k].error : k \in DOMAIN response.results}
    ELSE {}

\* C25: no error string of a response holds the text of an error of the
\* store: not the error of a failed request, and not the error entry of a
\* file in the result of an upload.
C25_ResponsesRedacted ==
    \A p \in Workers :
        pc[p] = "done"
            => \A error \in responseErrors(p) :
                    \A i \in 1..Len(error) : error[i] \notin SensitiveFragments

----------------------------------------------------------------------------
(* Properties of concurrent pipeline runs (Spec) *)

\* a worker whose pipeline run, a create or a retry, is acting on this item
acting(p, id) == pc[p] \notin {"idle", "done"} /\ run[p].contentId = id

\* C26: a retry of an item is not held back by a retry of the same item that
\* is in progress: while the stored row passes the checks, a second retry
\* enters the pipeline as well. Two runs act on one item at the same time only
\* in this way: both are retries, and they overlap.
C26_RetriesUnguarded ==
    /\ \A p, q \in Workers : \A id \in DOMAIN contents :
          (/\ p # q
           /\ pc[p] = "idle"
           /\ Retrying(q, id)
           /\ retryRejection(findById(id)) = Null
           /\ contents[id].processingAttempts < MaxAttempts)
              => ENABLED (RetryFind(p, id) /\ pc'[p] = "retry.markProcessing")
    /\ \A p, q \in Workers : \A id \in DOMAIN contents :
          (p # q /\ acting(p, id) /\ acting(q, id))
              => /\ run[p].op = "retry" /\ run[p].overlapped
                 /\ run[q].op = "retry" /\ run[q].overlapped

\* two retries of a failed item both passed the checks before either marked
\* the item processing (each has marked it once, none has failed since), both
\* have deleted the chunks of the item and both are about to insert theirs
C26_Witness ==
    \E id \in DOMAIN contents :
        /\ \A p \in Workers : Retrying(p, id) /\ pc[p] = "retry.embed" /\ run[p].overlapped
        /\ contents[id].processingAttempts = 2
        /\ chunksOf(id) = {}

----------------------------------------------------------------------------
(* Properties of the attempt counter and of the status (Spec) *)

\* C27: a run that ends in failure and records it, a create or a retry that
\* no other retry overlapped, leaves the attempt counter of its item one
\* above what it was when the run began (0 for an item that did not exist).
C27_FailureCountsOneAttempt ==
    [][\A p \in Workers :
          (/\ pc[p] \in {"url.recordFailure", "image.recordFailure", "retry.recordFailure"}
           /\ pc'[p] = "done"
           /\ result'[p].recordWrite = "ok"
           /\ ~run[p].overlapped)
              => LET id == run[p].contentId
                 IN  /\ id \in DOMAIN contents'
                     /\ contents'[id].status = "failed"
                     /\ contents'[id].processingAttempts = run[p].attemptsAtStart + 1]_vars

\* C29: a retry that entered the pipeline, and that no other retry of the
\* item overlapped, ends (returns or throws) with the item completed or
\* failed, never processing, whichever of its steps failed.
C29_RetryEndsSettled ==
    [][\A p \in Workers :
          (/\ Retrying(p, run[p].contentId)
           /\ pc'[p] = "done"
           /\ ~run[p].overlapped)
              => LET id == run[p].contentId
                 IN  /\ id \in DOMAIN contents'
                     /\ contents'[id].status \in {"completed", "failed"}]_vars

----------------------------------------------------------------------------
(* Properties of the offsets of chunks (SpecChunk) *)

\* C28: the offsets of a chunk returned by chunkText or chunkDocument are
\* offsets into the text the call was given: the text between startOffset and
\* endOffset, trimmed, is the content of the chunk.
C28_OffsetsIntoSource ==
    /\ (chunker.pc = "returned" /\ chunker.caller = "user")
          => \A i \in DOMAIN chunker.chunks :
                LET chunk == chunker.chunks[i]
                IN  trim(substring(chunker.text, chunk.startOffset, chunk.endOffset))
                        = chunk.content
    /\ document.pc = "returned"
          => \A i \in DOMAIN document.allChunks :
                LET chunk == document.allChunks[i]
                IN  trim(substring(document.text, chunk.startOffset, chunk.endOffset))
                        = chunk.content

\* C30: of two consecutive chunks chunkText returns, the later one starts
\* after the start and ends after the end of the earlier one, so it covers a
\* character the earlier one does not.
C30_SpansAdvance ==
    (chunker.pc = "returned" /\ chunker.caller = "user")
        => \A i \in 2..Len(chunker.chunks) :
              /\ chunker.chunks[i].startOffset > chunker.chunks[i - 1].startOffset
              /\ chunker.chunks[i].endOffset > chunker.chunks[i - 1].endOffset

====
